---- MODULE Spec2Model ----
(***************************************************************************)
(* A model of stratx/partdep.py: the continuous stratifier                 *)
(* (finite_differences, collect_discrete_slopes, avg_slopes_at_x,          *)
(* partial_dependence), the categorical merge (avg_values_at_cat) and the  *)
(* NaN-aware weighted average (nanavg_vectors).                            *)
(*                                                                         *)
(* Numbers.  The program computes in IEEE doubles.  Here a double is an    *)
(* exact rational <<n, d>> in lowest terms with d > 0, and the one         *)
(* non-number the program uses, NaN, is <<0, 0>>.  Rounding error is not   *)
(* modelled: equalities below are equalities of exact values.              *)
(***************************************************************************)
EXTENDS Integers, Sequences, FiniteSets, TLC

\* ------------------------------------------------------------------ bounds
\* most samples in one leaf handed to finite_differences
MaxLeafSize == 3

\* most samples in the dataset handed to plot_stratpd
MaxSamples == 4

\* target-variable values
XVals == {1, 2, 3, 4}
\* leaf ids of the partitioning tree
LeafIds == {1, 2, 3}
\* values of min_slopes_per_x
MinSlopesVals == {-1, 0, 1, 2, 3}
\* response values of the dataset handed to plot_stratpd
YVals == {0, 1, 4}
\* category codes are 0..NCats-1
NCats == 4
\* most leaves (columns) handed to avg_values_at_cat
MaxCatLeaves == 3
\* most distinct categories in one leaf
MaxCatsPerLeaf == 2
\* most samples of one category in one leaf
MaxCount == 2
\* deltas of the categories of a leaf that are not its reference category
CatDeltaVals == {<<0, 1>>, <<1, 1>>}

\* length of the vectors handed to nanavg_vectors
VecLen == 2
\* largest weight handed to nanavg_vectors
MaxWeight == 2
\* elements of the vectors handed to nanavg_vectors
NAVals == {<<0, 0>>, <<0, 1>>, <<2, 1>>, <<5, 1>>}

\* most category codes in the column handed to cat_partial_dependence
MaxCodes == 3
\* codes of an integer column
IntCodeVals == {-1, 0, 1, 2}
\* values of a float column
FloatCodeVals == {<<-1, 1>>, <<0, 1>>, <<1, 2>>, <<1, 1>>, <<0, 0>>}

\* most trials of plot_stratpd
MaxTrials == 2
\* most samples of a dataset that is resampled for several trials
MaxTrialSamples == 3

\* most leaves, and the category codes 0..NChainCats-1, of the calls of
\* avg_values_at_cat in which one leaf leads to the next
MaxChainLeaves == 5
NChainCats == 6

\* most samples, and the largest category code, of a dataset handed to
\* catwise_leaves
MaxCatSamples == 4
MaxCatCode == 2

\* most unique x values and most segments handed to avg_slopes_at_x_jit
MaxParX == 3
MaxParSlopes == 2
\* the slopes of those segments
ParSlopeVals == {<<0, 1>>, <<1, 1>>, <<-1, 2>>}
\* what a cell of np.empty can hold before it is written: any double
GarbageVals == {<<0, 0>>, <<0, 1>>, <<9, 1>>}

\* response values of the samples of a leaf handed to finite_differences
FDYVals == {8, 9, 10}

\* --------------------------------------------------------------- rationals
NaN == <<0, 0>>

isnan(r) == r = NaN

Abs(n) == IF n < 0 THEN -n ELSE n

RECURSIVE GCD(_, _)
GCD(a, b) == IF b = 0 THEN a ELSE GCD(b, a % b)

\* the rational n/d in lowest terms, d /= 0
\* (n, d and their divisor are bound as values, each computed once)
Norm(n, d) ==
    CHOOSE r \in {<<(IF d_ < 0 THEN -1 ELSE 1) * (n_ \div g), (IF d_ < 0 THEN -1 ELSE 1) * (d_ \div g)>> :
                    <<n_, d_, g>> \in {<<n, d, GCD(Abs(n), Abs(d))>>}} : TRUE

R(n) == <<n, 1>>

\* float arithmetic: NaN in, NaN out
\* (over the least common denominator, to keep the numbers small)
RAddV(a, b) == IF isnan(a) \/ isnan(b) THEN NaN
               ELSE LET g == GCD(a[2], b[2])
                    IN  Norm(a[1] * (b[2] \div g) + b[1] * (a[2] \div g),
                             (a[2] \div g) * b[2])
RAdd(a, b) == CHOOSE r \in {RAddV(x, y) : <<x, y>> \in {<<a, b>>}} : TRUE
RSub(a, b) == CHOOSE r \in {IF isnan(x) \/ isnan(y) THEN NaN ELSE RAddV(x, <<-y[1], y[2]>>) :
                              <<x, y>> \in {<<a, b>>}} : TRUE
\* (common factors are taken out before multiplying, to keep the numbers small)
RMulV(a, b) == IF isnan(a) \/ isnan(b) THEN NaN
               ELSE LET g1 == GCD(Abs(a[1]), Abs(b[2]))
                        g2 == GCD(Abs(b[1]), Abs(a[2]))
                    IN  Norm((a[1] \div g1) * (b[1] \div g2),
                             (a[2] \div g2) * (b[2] \div g1))
RMul(a, b) == CHOOSE r \in {RMulV(x, y) : <<x, y>> \in {<<a, b>>}} : TRUE
\* 0/0 is NaN, as in IEEE arithmetic; no caller divides a non-zero by zero
RDiv(a, b) == CHOOSE r \in {IF isnan(x) \/ isnan(y) \/ y[1] = 0 THEN NaN
                              ELSE RMulV(x, <<y[2], y[1]>>) :
                              <<x, y>> \in {<<a, b>>}} : TRUE
RLess(a, b) == a[1] * b[2] < b[1] * a[2]

\* ------------------------------------------------------------ numpy helpers
RECURSIVE SumSeq(_)
SumSeq(s) == IF s = <<>> THEN 0 ELSE Head(s) + SumSeq(Tail(s))

RECURSIVE RSumSeq(_)
RSumSeq(s) == IF s = <<>> THEN R(0) ELSE RAdd(Head(s), RSumSeq(Tail(s)))

SetMin(S) == CHOOSE m \in S : \A o \in S : m <= o
SetMax(S) == CHOOSE m \in S : \A o \in S : m >= o

RECURSIVE SortedSeq(_)
SortedSeq(S) == IF S = {} THEN <<>>
                ELSE LET m == SetMin(S) IN <<m>> \o SortedSeq(S \ {m})

\* np.unique(x): the distinct values of x, ascending
np_unique(x) == SortedSeq({x[i] : i \in DOMAIN x})

\* (a variant of MeanWhere: the first response at ux, ties not averaged)
FirstWhere(x, y, ux) ==
    R(y[SetMin({i \in DOMAIN x : x[i] = ux})])

\* y[x==ux].mean()
MeanWhere(x, y, ux) ==
    LET idx == {i \in DOMAIN x : x[i] = ux}
        sel == [k \in 1..Cardinality(idx) |-> R(y[SortedSeq(idx)[k]])]
    IN  RDiv(RSumSeq(sel), R(Cardinality(idx)))

\* np.diff on integers and on doubles
np_diff(u) == [i \in 1..(Len(u) - 1) |-> u[i + 1] - u[i]]
np_diff_R(u) == [i \in 1..(Len(u) - 1) |-> RSub(u[i + 1], u[i])]

\* --------------------------------------------------------- finite_differences
\* The degenerate return of finite_differences: np.array([[0]]), np.array([0.0]).
\* A range row holds one number here, not two.
DegenerateRanges == << <<0>> >>
DegenerateSlopes == << R(0) >>

\* x holds integers: the target value of sample i is the double x[i]/den
finite_differences(x, y, den) ==
    LET uniq_x == np_unique(x)
        avg_y == [i \in 1..Len(uniq_x) |-> MeanWhere(x, y, uniq_x[i])]
    IN  IF Len(uniq_x) = 1
        THEN [leaf_xranges |-> DegenerateRanges,
              leaf_slopes |-> DegenerateSlopes,
              ignored |-> Len(x)]
        ELSE LET x_deltas == np_diff(uniq_x)
                 y_deltas == np_diff_R(avg_y)
             IN  [leaf_xranges |-> [i \in 1..(Len(uniq_x) - 1) |->
                                        <<uniq_x[i], uniq_x[i + 1]>>],
                  leaf_slopes |-> [i \in 1..(Len(uniq_x) - 1) |->
                                        RDiv(y_deltas[i], Norm(x_deltas[i], den))],
                  ignored |-> 0]

\* ------------------------------------------------------------- leaf_samples
\* rf.apply for the one tree of the forest (n_trees=1) is leaf_ids; a leaf is
\* the ascending sample indexes sharing an id, leaves in ascending id order.
leaf_samples(leaf_ids) ==
    LET uniq_ids == np_unique(leaf_ids)
    IN  [k \in 1..Len(uniq_ids) |->
            SortedSeq({i \in DOMAIN leaf_ids : leaf_ids[i] = uniq_ids[k]})]

\* a[samples]
Take(a, samples) == [k \in 1..Len(samples) |-> a[samples[k]]]

SeqMin(a) == SetMin({a[i] : i \in DOMAIN a})
SeqMax(a) == SetMax({a[i] : i \in DOMAIN a})

\* ---------------------------------------------------- collect_discrete_slopes
\* 1.e-8 is 1/TolInv
TolInv == 100000000

\* np.abs(np.min(leaf_x) - np.max(leaf_x)) < 1.e-8, the values being leaf_x[i]/den
xleft_is_xright(leaf_x, den) == Abs(SeqMin(leaf_x) - SeqMax(leaf_x)) * TolInv < den

RECURSIVE collect_loop(_, _, _, _, _, _)
collect_loop(leaves, k, X_col, y, den, acc) ==
    IF k > Len(leaves) THEN acc
    ELSE LET leaf_x == Take(X_col, leaves[k])
             leaf_y == Take(y, leaves[k])
         IN  IF xleft_is_xright(leaf_x, den)
             THEN collect_loop(leaves, k + 1, X_col, y, den,
                               [acc EXCEPT !.ignored = @ + Len(leaf_x)])
             ELSE LET fd == finite_differences(leaf_x, leaf_y, den)
                  IN  collect_loop(leaves, k + 1, X_col, y, den,
                          [leaf_xranges |-> acc.leaf_xranges \o fd.leaf_xranges,
                           leaf_slopes |-> acc.leaf_slopes \o fd.leaf_slopes,
                           ignored |-> acc.ignored + fd.ignored])

collect_discrete_slopes(leaf_ids, X_col, y, den) ==
    collect_loop(leaf_samples(leaf_ids), 1, X_col, y, den,
                 [leaf_xranges |-> <<>>, leaf_slopes |-> <<>>, ignored |-> 0])

\* ------------------------------------------------------------ avg_slopes_at_x
\* (a variant of trim: the right edge of a range counted in)
trim_right_closed(ux, xr, slope) ==
    IF ux < xr[1] \/ ux > xr[2] THEN NaN ELSE slope

\* (a variant of trim: the range taken as open on the left, closed on the right)
trim_left_open(ux, xr, slope) ==
    IF ux <= xr[1] \/ ux > xr[2] THEN NaN ELSE slope

\* lines 656 and 697, one element of
\* np.where((uniq_x < xr[0]) | (uniq_x >= xr[1]), np.nan, slope)
trim(ux, xr, slope) ==
    IF ux < xr[1] \/ ux >= xr[2] THEN NaN ELSE slope

\* the matrix of avg_slopes_at_x_nonparallel_jit after its first loop (it
\* starts as np.zeros and every column is assigned)
slope_matrix(uniq_x, leaf_ranges, leaf_slopes) ==
    [i \in 1..Len(uniq_x) |->
        [j \in 1..Len(leaf_slopes) |-> trim(uniq_x[i], leaf_ranges[j], leaf_slopes[j])]]

RECURSIVE SelectSeq_notnan(_)
SelectSeq_notnan(row) ==
    IF row = <<>> THEN <<>>
    ELSE IF isnan(Head(row)) THEN SelectSeq_notnan(Tail(row))
    ELSE <<Head(row)>> \o SelectSeq_notnan(Tail(row))

\* np.nanmean(row)
np_nanmean(row) ==
    LET good == SelectSeq_notnan(row)
    IN  RDiv(RSumSeq(good), R(Len(good)))

\* (a variant of row_average: an all-NaN row keeps the 0 of np.zeros)
row_average_zero(row, nslopes) ==
    LET n_nan == Cardinality({j \in DOMAIN row : isnan(row[j])})
    IN  IF n_nan = nslopes THEN R(0) ELSE np_nanmean(row)

\* lines 672-673 and 713-714: the average of one row of the matrix
row_average(row, nslopes) ==
    LET n_nan == Cardinality({j \in DOMAIN row : isnan(row[j])})
    IN  IF n_nan = nslopes THEN NaN ELSE np_nanmean(row)

\* lines 672-674 and 713-715: the count of one row
row_count(row, nslopes) ==
    nslopes - Cardinality({j \in DOMAIN row : isnan(row[j])})

\* One cell of np.empty: memory that was never written.
Unwritten == "unwritten"

\* slopes[:, i] = np.where(...): column i of the matrix written whole
RECURSIVE write_columns(_, _, _, _, _)
write_columns(slopes, i, uniq_x, leaf_ranges, leaf_slopes) ==
    IF i > Len(leaf_slopes) THEN slopes
    ELSE write_columns(
            [r \in DOMAIN slopes |->
                [slopes[r] EXCEPT ![i] = trim(uniq_x[r], leaf_ranges[i], leaf_slopes[i])]],
            i + 1, uniq_x, leaf_ranges, leaf_slopes)

\* avg_slopes_at_x_jit with its prange iterations run in index order: the
\* matrix starts as np.empty and the first loop writes every column.
avg_slopes_at_x_jit(uniq_x, leaf_ranges, leaf_slopes) ==
    LET nx == Len(uniq_x)
        nslopes == Len(leaf_slopes)
        empty == [r \in 1..nx |-> [j \in 1..nslopes |-> Unwritten]]
    IN  [avg_value_at_x |-> [i \in 1..nx |->
            row_average(write_columns(empty, 1, uniq_x, leaf_ranges, leaf_slopes)[i],
                        nslopes)],
         slope_counts_at_x |-> [i \in 1..nx |->
            row_count(write_columns(empty, 1, uniq_x, leaf_ranges, leaf_slopes)[i],
                      nslopes)]]

avg_slopes_at_x_nonparallel_jit(uniq_x, leaf_ranges, leaf_slopes) ==
    LET nx == Len(uniq_x)
        nslopes == Len(leaf_slopes)
    IN  [avg_value_at_x |-> [i \in 1..nx |->
            row_average(slope_matrix(uniq_x, leaf_ranges, leaf_slopes)[i], nslopes)],
         slope_counts_at_x |-> [i \in 1..nx |->
            row_count(slope_matrix(uniq_x, leaf_ranges, leaf_slopes)[i], nslopes)]]

\* ------------------------------------------------ partial_dependence, the tail
\* (a variant of weak_evidence_to_nan: the two branches of np.where swapped)
weak_evidence_kept(slope, counts, min_slopes) ==
    LET m == IF min_slopes <= 0 THEN 1 ELSE min_slopes
    IN  [i \in DOMAIN slope |-> IF counts[i] >= m THEN NaN ELSE slope[i]]

\* (a variant of weak_evidence_to_nan: > in place of >=)
weak_evidence_strict(slope, counts, min_slopes) ==
    LET m == IF min_slopes <= 0 THEN 1 ELSE min_slopes
    IN  [i \in DOMAIN slope |-> IF counts[i] > m THEN slope[i] ELSE NaN]

\* lines 155-159: np.where(slope_counts_at_x >= min_slopes_per_x, slope_at_x, nan)
weak_evidence_to_nan(slope, counts, min_slopes) ==
    LET m == IF min_slopes <= 0 THEN 1 ELSE min_slopes
    IN  [i \in DOMAIN slope |-> IF counts[i] >= m THEN slope[i] ELSE NaN]

\* (a variant of np_nancumsum: np.cumsum, where a NaN poisons what follows)
RECURSIVE np_cumsum(_, _)
np_cumsum(a, k) ==
    IF k = 0 THEN <<>>
    ELSE LET prev == np_cumsum(a, k - 1)
             last == IF k = 1 THEN R(0) ELSE prev[k - 1]
         IN  Append(prev, RAdd(last, a[k]))

\* np.nancumsum: a NaN adds 0
RECURSIVE np_nancumsum(_, _)
np_nancumsum(a, k) ==
    IF k = 0 THEN <<>>
    ELSE LET prev == np_nancumsum(a, k - 1)
             last == IF k = 1 THEN R(0) ELSE prev[k - 1]
         IN  Append(prev, IF isnan(a[k]) THEN last ELSE RAdd(last, a[k]))

\* (a variant of integrate: dydx = slope_at_x[1:], the slope at the right end)
integrate_right_slope(uniq_x, slope, den) ==
    LET dx == np_diff(uniq_x)
        y_deltas == [i \in 1..(Len(uniq_x) - 1) |-> RMul(slope[i + 1], Norm(dx[i], den))]
    IN  <<R(0)>> \o np_nancumsum(y_deltas, Len(y_deltas))

\* lines 172-177, over all of real_uniq_x
integrate(uniq_x, slope, den) ==
    LET dx == np_diff(uniq_x)
        y_deltas == [i \in 1..(Len(uniq_x) - 1) |-> RMul(slope[i], Norm(dx[i], den))]
    IN  <<R(0)>> \o np_nancumsum(y_deltas, Len(y_deltas))

\* (a variant of idx_not_adjacent_nans: | in place of &)
idx_not_any_nan(slope) ==
    LET later == {p \in 2..Len(slope) : ~(isnan(slope[p]) \/ isnan(slope[p - 1]))}
    IN  SortedSeq(IF ~isnan(slope[1]) THEN later \cup {1} ELSE later)

\* (a variant of idx_not_adjacent_nans: position 0 kept whatever its slope)
idx_first_always_kept(slope) ==
    LET later == {p \in 2..Len(slope) : ~(isnan(slope[p]) /\ isnan(slope[p - 1]))}
    IN  SortedSeq(later \cup {1})

\* (a variant of idx_not_adjacent_nans: nothing stripped)
idx_every_position(slope) == [p \in 1..Len(slope) |-> p]

\* lines 186-189; positions are 1-based here, so the code's position 0 is 1
idx_not_adjacent_nans(slope) ==
    LET later == {p \in 2..Len(slope) : ~(isnan(slope[p]) /\ isnan(slope[p - 1]))}
    IN  SortedSeq(IF ~isnan(slope[1]) THEN later \cup {1} ELSE later)

\* -------------------------------------------------------------- nanavg_vectors
\* np.where(a == 0, 1, a), one element
zero_as_one(a) == IF a = 0 THEN 1 ELSE a

\* (a variant of nanavg_vectors: the weights left out of the average)
nanavg_unweighted(a, b, wa, wb) ==
    [i \in DOMAIN a |->
        IF isnan(a[i]) THEN b[i]
        ELSE IF isnan(b[i]) THEN a[i]
        ELSE RDiv(RAdd(a[i], b[i]), R(2))]

\* a, b: vectors of doubles; wa, wb: vectors of weights of the same length
\* (a scalar weight is the vector that repeats it)
nanavg_vectors(a, b, wa, wb) ==
    [i \in DOMAIN a |->
        LET c == RDiv(RAdd(RMul(a[i], R(wa[i])), RMul(b[i], R(wb[i]))),
                      R(zero_as_one(wa[i] + wb[i])))
        IN  IF isnan(a[i]) THEN b[i]           \* c[a_nan] = b[a_nan]
            ELSE IF isnan(b[i]) THEN a[i]      \* c[in_a_not_b] = a[in_a_not_b]
            ELSE c]

\* ------------------------------------------------------------ avg_values_at_cat
\* Category code k is index k+1 of a vector; leaf (column) j of the code is
\* index j+1 of leaf_deltas and leaf_counts, so the first leaf is index 1.

\* the default of the max_iter parameter
max_iter == 3

\* (a variant of np_argmax: the last index holding the largest value)
np_argmax_last(w) == SetMax({i \in DOMAIN w : \A k \in DOMAIN w : w[i] >= w[k]})

\* np.argmax: the first index holding the largest value
np_argmax(w) == SetMin({i \in DOMAIN w : \A k \in DOMAIN w : w[i] >= w[k]})

\* line 1059
are_intersecting(catavg_, v) == [c \in DOMAIN v |-> ~isnan(catavg_[c]) /\ ~isnan(v[c])]

\* line 1068: the category column j is merged on
merge_refcat(catavg_, v, cur_weight) ==
    np_argmax([c \in DOMAIN v |->
        IF cur_weight[c] > 0 /\ are_intersecting(catavg_, v)[c] THEN cur_weight[c] ELSE 0])

\* (a variant of merged_catavg: catavg[ix] not added to the shifted column)
merged_catavg_unadjusted(catavg_, catavg_weight_, v, cur_weight, ix) ==
    LET shifted_v == [c \in DOMAIN v |-> RSub(v[c], v[ix])]
    IN  nanavg_vectors(catavg_, shifted_v, catavg_weight_, cur_weight)

\* lines 1071-1075: the running vector after column v is merged on category ix
merged_catavg(catavg_, catavg_weight_, v, cur_weight, ix) ==
    LET shifted_v == [c \in DOMAIN v |-> RSub(v[c], v[ix])]
        relative_to_value == catavg_[ix]
        adjusted_v == [c \in DOMAIN v |-> RAdd(shifted_v[c], relative_to_value)]
    IN  nanavg_vectors(catavg_, adjusted_v, catavg_weight_, cur_weight)

\* (a variant of added_weight: the leaf's counts not added)
added_weight_none(catavg_weight_, cur_weight) == catavg_weight_

\* line 1077: catavg_weight += cur_weight
added_weight(catavg_weight_, cur_weight) ==
    [c \in DOMAIN catavg_weight_ |-> catavg_weight_[c] + cur_weight[c]]

\* ------------------------------------------------------------------- state
VARIABLES
    pc,        \* which call is in progress, and where it stands
    fd_x,      \* finite_differences: argument x (one leaf's target values)
    fd_y,      \* finite_differences: argument y (the leaf's responses)
    fd_ret,    \* finite_differences: the returned triple
    \* plot_stratpd (n_trials=1) and the partial_dependence call it makes
    X_col,             \* X[colname], one value per sample, counted in units
    x_den,             \* of 1/x_den: sample i has the double X_col[i]/x_den
    y,                 \* the response, one value per sample
    leaf_ids,          \* the fitted tree's leaf id of each sample
    min_slopes_per_x,  \* the argument of partial_dependence
    parallel_jit,      \* the argument of partial_dependence
    leaf_xranges,      \* collect_discrete_slopes: one range per segment
    leaf_slopes,       \* collect_discrete_slopes: one slope per segment
    ignored,           \* samples of skipped leaves
    real_uniq_x,       \* np.unique(X_col)
    avg_slope_at_x,    \* avg_slopes_at_x: aggregated slope per unique x
    slope_counts_at_x, \* avg_slopes_at_x: contributing segments per unique x
    slope_at_x,        \* the aggregated slopes after thresholding (line 159)
    pdpx, pdpy,        \* the curve partial_dependence returns
    ret,               \* what plot_stratpd's caller gets
    \* nanavg_vectors
    na_a, na_b,        \* the two vectors
    na_wa, na_wb,      \* their weights
    na_c,              \* the returned vector
    \* avg_values_at_cat
    leaf_deltas,       \* argument: per leaf, the delta of each category
    leaf_counts,       \* argument: per leaf, the samples of each category; the
                       \* running weights catavg_weight are its first column
                       \* (a numpy view, updated in place)
    counts_in,         \* leaf_counts as the caller passed it
    catavg,            \* the running average vector
    work,              \* leaf indexes not merged yet
    completed,         \* leaf indexes merged in this pass
    iteration,         \* the pass number
    todo,              \* what the for loop over work has not visited yet
    merge_ignored,     \* the returned count of unmerged samples
    \* cat_partial_dependence
    cat_codes,         \* X[colname].values, the category codes
    cat_dtype,         \* their numpy dtype
    supervised,        \* the argument of cat_partial_dependence
    rf_fits,           \* calls of rf.fit so far
    catwise_calls,     \* calls of catwise_leaves so far
    cpd_ret,           \* how cat_partial_dependence ended
    \* plot_stratpd with n_trials trials (with X_col, y, min_slopes_per_x,
    \* pdpx, pdpy and ret above)
    n_trials,          \* the argument of plot_stratpd
    bootstrap,         \* the argument of plot_stratpd
    all_pdpx, all_pdpy, \* the curves of the trials made so far
    \* avg_slopes_at_x_jit, its prange iterations interleaved (with
    \* real_uniq_x, leaf_xranges, leaf_slopes, avg_slope_at_x and
    \* slope_counts_at_x above)
    par_slopes,        \* the matrix slopes
    par_written,       \* per column, how many of its rows are written
    par_rows           \* the iterations of the second loop that are over

fdVars == <<fd_x, fd_y, fd_ret>>
pdVars == <<X_col, x_den, y, leaf_ids, min_slopes_per_x, parallel_jit, leaf_xranges,
            leaf_slopes, ignored, real_uniq_x, avg_slope_at_x, slope_counts_at_x, slope_at_x,
            pdpx, pdpy, ret>>
naVars == <<na_a, na_b, na_wa, na_wb, na_c>>
catVars == <<leaf_deltas, leaf_counts, counts_in, catavg, work, completed,
             iteration, todo, merge_ignored>>
cpdVars == <<cat_codes, cat_dtype, supervised, rf_fits, catwise_calls, cpd_ret>>
trVars == <<n_trials, bootstrap, all_pdpx, all_pdpy>>
parVars == <<par_slopes, par_written, par_rows>>
vars == <<pc, fdVars, pdVars, naVars, catVars, cpdVars, trVars, parVars>>

\* catavg_weight = leaf_counts[:,0]
catavg_weight == leaf_counts[1]

NAIdle == na_a = <<>> /\ na_b = <<>> /\ na_wa = <<>> /\ na_wb = <<>> /\ na_c = <<>>

CatIdle ==
    /\ leaf_deltas = <<>> /\ leaf_counts = <<>> /\ counts_in = <<>> /\ catavg = <<>>
    /\ work = {} /\ completed = {} /\ iteration = 0 /\ todo = {}
    /\ merge_ignored = 0

CPDIdle ==
    /\ cat_codes = <<>> /\ cat_dtype = "int64" /\ supervised = TRUE
    /\ rf_fits = 0 /\ catwise_calls = 0 /\ cpd_ret = "none"

TrIdle == n_trials = 1 /\ bootstrap = TRUE /\ all_pdpx = <<>> /\ all_pdpy = <<>>

ParIdle == par_slopes = <<>> /\ par_written = <<>> /\ par_rows = {}

\* plot_stratpd has handed its caller no curve: it has not ended, or it raised
NoCurve(outcome) == [outcome |-> outcome, pdpx |-> <<>>, pdpy |-> <<>>]

\* the variables of a call that is not being made
FDIdle == fd_x = <<>> /\ fd_y = <<>> /\ fd_ret = <<>>
PDIdle ==
    /\ X_col = <<>> /\ x_den = 1 /\ y = <<>> /\ leaf_ids = <<>>
    /\ min_slopes_per_x = 0 /\ parallel_jit = TRUE
    /\ leaf_xranges = <<>> /\ leaf_slopes = <<>> /\ ignored = 0
    /\ real_uniq_x = <<>> /\ avg_slope_at_x = <<>> /\ slope_counts_at_x = <<>>
    /\ slope_at_x = <<>> /\ pdpx = <<>> /\ pdpy = <<>> /\ ret = NoCurve("none")

NoRet == [leaf_xranges |-> <<>>, leaf_slopes |-> <<>>, ignored |-> -1]

\* ------------------------------------------- finite_differences on one leaf
FDInit ==
    /\ pc = "fd_call"
    /\ \E n \in 1..MaxLeafSize :
          /\ fd_x \in [1..n -> XVals]
          /\ fd_y \in [1..n -> FDYVals]
    /\ fd_ret = NoRet
    /\ PDIdle /\ NAIdle /\ CatIdle /\ CPDIdle /\ TrIdle /\ ParIdle

FDCall ==
    /\ pc = "fd_call"
    /\ fd_ret' = finite_differences(fd_x, fd_y, x_den)
    /\ pc' = "fd_done"
    /\ UNCHANGED <<fd_x, fd_y, pdVars, naVars, catVars,
                   cpdVars, trVars,
                   parVars>>

FDNext == FDCall

SpecFD == FDInit /\ [][FDNext]_vars

\* ---- claims about finite_differences (checked under SpecFD)
FDDistinct == {fd_x[i] : i \in DOMAIN fd_x}
FDSumAt(v) == SumSeq([i \in DOMAIN fd_x |-> IF fd_x[i] = v THEN fd_y[i] ELSE 0])
FDCountAt(v) == Cardinality({i \in DOMAIN fd_x : fd_x[i] = v})
\* a and b are consecutive distinct target values of the leaf
FDConsecutive(a, b) == a \in FDDistinct /\ b \in FDDistinct /\ a < b
                       /\ ~ \E c \in FDDistinct : a < c /\ c < b

\* C2: a leaf with k >= 2 distinct target values yields exactly k-1 segments,
\* the i-th over (x_i, x_{i+1}) with slope (m_{i+1} - m_i)/(x_{i+1} - x_i), m the
\* mean response at a value; x=[1,3,4], y=[9,8,10] gives [1,3) slope -1/2 and
\* [3,4) slope 2.
C2_ForwardDifferenceSegments ==
    (pc = "fd_done" /\ Cardinality(FDDistinct) >= 2) =>
        /\ Len(fd_ret.leaf_xranges) = Cardinality(FDDistinct) - 1
        /\ Len(fd_ret.leaf_slopes) = Cardinality(FDDistinct) - 1
        /\ fd_ret.ignored = 0
        /\ \A i \in DOMAIN fd_ret.leaf_xranges :
              LET a == fd_ret.leaf_xranges[i][1]
                  b == fd_ret.leaf_xranges[i][2]
                  s == fd_ret.leaf_slopes[i]
              IN  /\ Len(fd_ret.leaf_xranges[i]) = 2
                  /\ FDConsecutive(a, b)
                  /\ \A j \in DOMAIN fd_ret.leaf_xranges :
                        j < i => fd_ret.leaf_xranges[j][1] < a
                  \* s = (sum_b/cnt_b - sum_a/cnt_a) / (b - a), cross-multiplied
                  /\ s[2] > 0
                  /\ s[1] * (b - a) * FDCountAt(a) * FDCountAt(b)
                        = s[2] * (FDSumAt(b) * FDCountAt(a) - FDSumAt(a) * FDCountAt(b))
        /\ (fd_x = <<1, 3, 4>> /\ fd_y = <<9, 8, 10>>) =>
              /\ fd_ret.leaf_xranges = << <<1, 3>>, <<3, 4>> >>
              /\ fd_ret.leaf_slopes = << <<-1, 2>>, <<2, 1>> >>

C2_Witness ==
    /\ pc = "fd_done"
    /\ fd_x = <<1, 3, 4>> /\ fd_y = <<9, 8, 10>>
    /\ Len(fd_ret.leaf_slopes) = 2

\* C3: a leaf whose samples share one target value yields zero segments (no
\* range, no slope) and all of its samples as ignored.
C3_DegenerateLeafHasNoSegments ==
    (pc = "fd_done" /\ Cardinality(FDDistinct) = 1) =>
        /\ Len(fd_ret.leaf_xranges) = 0
        /\ Len(fd_ret.leaf_slopes) = 0
        /\ fd_ret.ignored = Len(fd_x)

\* C20: the segments returned for one leaf each have x_lo < x_hi, do not
\* overlap, and their union is [min leaf x, max leaf x) without a gap: every
\* value in that range lies in exactly one segment.
C20_SegmentsTileLeafRange ==
    pc = "fd_done" =>
        /\ \A i \in DOMAIN fd_ret.leaf_xranges :
              /\ Len(fd_ret.leaf_xranges[i]) = 2
              /\ fd_ret.leaf_xranges[i][1] < fd_ret.leaf_xranges[i][2]
        /\ \A v \in SetMin(FDDistinct)..SetMax(FDDistinct) :
              Cardinality({i \in DOMAIN fd_ret.leaf_xranges :
                              /\ fd_ret.leaf_xranges[i][1] <= v
                              /\ v < fd_ret.leaf_xranges[i][2]})
                 = IF v < SetMax(FDDistinct) THEN 1 ELSE 0
        /\ \A i \in DOMAIN fd_ret.leaf_xranges : \A e \in 1..2 :
              /\ SetMin(FDDistinct) <= fd_ret.leaf_xranges[i][e]
              /\ fd_ret.leaf_xranges[i][e] <= SetMax(FDDistinct)

\* ------------------------------------------------ plot_stratpd, n_trials = 1
\* plot_stratpd calls partial_dependence with parallel_jit left at its default,
\* True; another caller may pass False, and then plot_stratpd's tail does not
\* follow.
\* The dataset, up to the order of its samples and the naming of the leaves:
\* samples ascending in (x, y), leaf ids numbered by first appearance.
NonDecreasing(f) == \A i \in 1..(Len(f) - 1) : f[i] <= f[i + 1]
FirstAppearance(h) ==
    \A i \in DOMAIN h : h[i] <= 1 + SetMax({0} \cup {h[j] : j \in 1..(i - 1)})

PDInitAt(den) ==
    /\ pc = "pd_call"
    /\ \E n \in 1..MaxSamples :
          /\ X_col \in {f \in [1..n -> XVals] : NonDecreasing(f)}
          /\ y \in {g \in [1..n -> YVals] :
                      \A i \in 1..(n - 1) : X_col[i] = X_col[i + 1] => g[i] <= g[i + 1]}
          /\ leaf_ids \in {h \in [1..n -> LeafIds] : FirstAppearance(h)}
    /\ x_den = den
    /\ min_slopes_per_x = 0 /\ parallel_jit = TRUE
    /\ leaf_xranges = <<>> /\ leaf_slopes = <<>> /\ ignored = 0
    /\ real_uniq_x = <<>> /\ avg_slope_at_x = <<>> /\ slope_counts_at_x = <<>>
    /\ slope_at_x = <<>> /\ pdpx = <<>> /\ pdpy = <<>> /\ ret = NoCurve("none")
    /\ FDIdle /\ NAIdle /\ CatIdle /\ CPDIdle /\ TrIdle /\ ParIdle

\* target values 1, 2, 3, 4
PDInit == PDInitAt(1)

\* partial_dependence, lines 102-193, called with these min_slopes_per_x
\* and parallel_jit
partial_dependence(m, pj) ==
    /\ pc = "pd_call"
    /\ min_slopes_per_x' = m
    /\ parallel_jit' = pj
    /\ \E c \in {collect_discrete_slopes(leaf_ids, X_col, y, x_den)} :
       \E uniq \in {np_unique(X_col)} :
       \E a \in {IF pj
                  THEN avg_slopes_at_x_jit(uniq, c.leaf_xranges, c.leaf_slopes)
                  ELSE avg_slopes_at_x_nonparallel_jit(uniq, c.leaf_xranges,
                                                       c.leaf_slopes)} :
       \E thresholded \in {weak_evidence_to_nan(a.avg_value_at_x,
                                                  a.slope_counts_at_x, m)} :
       \E all_y \in {integrate(uniq, thresholded, x_den)} :
       \E keep \in {idx_not_adjacent_nans(thresholded)} :
           /\ leaf_xranges' = c.leaf_xranges
           /\ leaf_slopes' = c.leaf_slopes
           /\ ignored' = c.ignored
           /\ real_uniq_x' = uniq
           /\ avg_slope_at_x' = a.avg_value_at_x
           /\ slope_counts_at_x' = a.slope_counts_at_x
           /\ slope_at_x' = thresholded
           /\ pdpx' = Take(uniq, keep)
           /\ pdpy' = Take(all_y, keep)
    /\ pc' = "pd_returned"
    /\ UNCHANGED <<X_col, x_den, y, leaf_ids, ret, fdVars, naVars, catVars,
                   cpdVars, trVars,
                   parVars>>

\* plot_stratpd lines 376-377: raise ValueError
PlotRaise ==
    /\ pc = "pd_returned"
    /\ parallel_jit
    /\ Len(pdpy) = 0
    /\ ret' = NoCurve("ValueError")
    /\ pc' = "plot_done"
    /\ UNCHANGED <<X_col, x_den, y, leaf_ids, min_slopes_per_x, parallel_jit, leaf_xranges,
                   leaf_slopes, ignored, real_uniq_x, avg_slope_at_x,
                   slope_counts_at_x, slope_at_x, pdpx, pdpy, fdVars, naVars, catVars,
                   cpdVars, trVars,
                   parVars>>

\* plot_stratpd returns the curve
PlotReturn ==
    /\ pc = "pd_returned"
    /\ parallel_jit
    /\ Len(pdpy) /= 0
    /\ ret' = [outcome |-> "returned", pdpx |-> pdpx, pdpy |-> pdpy]
    /\ pc' = "plot_done"
    /\ UNCHANGED <<X_col, x_den, y, leaf_ids, min_slopes_per_x, parallel_jit, leaf_xranges,
                   leaf_slopes, ignored, real_uniq_x, avg_slope_at_x,
                   slope_counts_at_x, slope_at_x, pdpx, pdpy, fdVars, naVars, catVars,
                   cpdVars, trVars,
                   parVars>>

PDNext == (\E m \in MinSlopesVals, pj \in BOOLEAN : partial_dependence(m, pj))
          \/ PlotRaise \/ PlotReturn

SpecPD == PDInit /\ [][PDNext]_vars

\* ---- claims about the continuous stratifier (checked under SpecPD)
PDReturned == pc \in {"pd_returned", "plot_done"}

\* the segments whose range [x_lo, x_hi) holds the i-th unique x
Covering(i) ==
    {j \in DOMAIN leaf_slopes :
        leaf_xranges[j][1] <= real_uniq_x[i] /\ real_uniq_x[i] < leaf_xranges[j][2]}

RECURSIVE RSumOver(_, _)
RSumOver(S, f) ==
    IF S = {} THEN R(0)
    ELSE LET j == CHOOSE k \in S : TRUE IN RAdd(f[j], RSumOver(S \ {j}, f))

Retained(p) == \E k \in DOMAIN pdpx : pdpx[k] = real_uniq_x[p]

\* C1: whenever partial_dependence returns a non-empty curve, the y of its
\* first point is exactly 0, also when leading positions were dropped.
C1_CurveStartsAtZero ==
    (PDReturned /\ Len(pdpx) > 0) => pdpy[1] = R(0)

C1_Witness ==
    /\ PDReturned /\ Len(pdpx) > 1
    /\ isnan(slope_at_x[1])
    /\ pdpx[1] = real_uniq_x[3]
    /\ pdpy[2] /= R(0)

\* C4: at every unique x the aggregated slope is the arithmetic mean of the
\* slopes of exactly the segments with x_lo <= x < x_hi, and the count is the
\* number of those segments.
C4_MeanOfCoveringSegments ==
    PDReturned =>
        \A i \in DOMAIN real_uniq_x :
            /\ slope_counts_at_x[i] = Cardinality(Covering(i))
            /\ Covering(i) /= {} =>
                  /\ ~isnan(avg_slope_at_x[i])
                  /\ RMul(avg_slope_at_x[i], R(Cardinality(Covering(i))))
                        = RSumOver(Covering(i), leaf_slopes)

C4_Witness ==
    /\ PDReturned
    /\ \E i \in DOMAIN real_uniq_x :
          /\ Cardinality(Covering(i)) = 2
          /\ \E j, k \in Covering(i) : leaf_slopes[j] /= leaf_slopes[k]
    \* a right edge that is not counted in
    /\ \E i \in DOMAIN real_uniq_x : \E j \in DOMAIN leaf_slopes :
          /\ leaf_xranges[j][2] = real_uniq_x[i]
          /\ slope_counts_at_x[i] = 1

\* C5: an x covered by no segment has aggregated slope NaN, never 0, also
\* when there is no segment at all; an x covered only by segments of slope 0
\* has aggregated slope 0, not NaN.
C5_NoEvidenceIsNotZero ==
    PDReturned =>
        \A i \in DOMAIN real_uniq_x :
            /\ Covering(i) = {} => isnan(avg_slope_at_x[i])
            /\ (Covering(i) /= {} /\ \A j \in Covering(i) : leaf_slopes[j] = R(0))
                  => avg_slope_at_x[i] = R(0)

C5_Witness ==
    /\ PDReturned
    /\ Len(leaf_slopes) > 0
    /\ \E i \in DOMAIN real_uniq_x : Covering(i) = {} /\ isnan(avg_slope_at_x[i])
    /\ \E i \in DOMAIN real_uniq_x :
          Covering(i) /= {} /\ avg_slope_at_x[i] = R(0)

\* C6: when min_slopes_per_x exceeds the segment count at every x,
\* plot_stratpd ends in its ValueError and hands no curve to its caller.
C6_MinEvidenceTooHighRaises ==
    (pc = "plot_done"
        /\ \A i \in DOMAIN real_uniq_x : min_slopes_per_x > slope_counts_at_x[i])
    => ret = NoCurve("ValueError")

C6_Witness ==
    /\ pc = "plot_done"
    /\ \A i \in DOMAIN real_uniq_x : min_slopes_per_x > slope_counts_at_x[i]
    /\ \E i \in DOMAIN real_uniq_x : slope_counts_at_x[i] >= 2
    /\ ret.outcome = "ValueError"

\* C7: a position after the first is dropped from the curve exactly when the
\* slopes at it and at the position before it are both NaN, and every
\* position with a measured slope is kept; slopes [1, 3, NaN, NaN] over
\* x = [1, 2, 3, 4] give the curve x = [1, 2, 3], y = [0, 1, 4].
C7_AdjacentNansTruncate ==
    PDReturned =>
        /\ \A p \in 2..Len(real_uniq_x) :
              ~Retained(p) <=> (isnan(slope_at_x[p]) /\ isnan(slope_at_x[p - 1]))
        /\ \A p \in DOMAIN real_uniq_x : ~isnan(slope_at_x[p]) => Retained(p)
        /\ \A k \in DOMAIN pdpx : \E p \in DOMAIN real_uniq_x : pdpx[k] = real_uniq_x[p]
        /\ (real_uniq_x = <<1, 2, 3, 4>> /\ slope_at_x = <<R(1), R(3), NaN, NaN>>) =>
              /\ pdpx = <<1, 2, 3>>
              /\ pdpy = <<R(0), R(1), R(4)>>

C7_Witness ==
    /\ PDReturned
    /\ real_uniq_x = <<1, 2, 3, 4>>
    /\ slope_at_x = <<R(1), R(3), NaN, NaN>>
    /\ pdpx = <<1, 2, 3>>

\* ---- more claims about the continuous stratifier (checked under SpecPD)
\* C12: after thresholding, an x with fewer contributing segments than the
\* minimum has slope NaN and an x with at least the minimum keeps its
\* aggregated slope; a minimum <= 0 behaves as 1.
C12_ThresholdResetsWeakEvidence ==
    PDReturned =>
        LET m == IF min_slopes_per_x <= 0 THEN 1 ELSE min_slopes_per_x
        IN  \A i \in DOMAIN real_uniq_x :
               /\ slope_counts_at_x[i] < m => isnan(slope_at_x[i])
               /\ slope_counts_at_x[i] >= m => slope_at_x[i] = avg_slope_at_x[i]

C12_Witness ==
    /\ PDReturned
    /\ min_slopes_per_x = 2
    /\ \E i \in DOMAIN real_uniq_x :
          slope_counts_at_x[i] = 1 /\ ~isnan(avg_slope_at_x[i]) /\ isnan(slope_at_x[i])
    /\ \E i \in DOMAIN real_uniq_x :
          slope_counts_at_x[i] = 2 /\ ~isnan(slope_at_x[i])

\* C13: at the largest distinct target value the aggregated slope is NaN and
\* the count of contributing segments is 0, whatever the leaves.
C13_LargestXHasNoEvidence ==
    PDReturned =>
        /\ isnan(avg_slope_at_x[Len(real_uniq_x)])
        /\ slope_counts_at_x[Len(real_uniq_x)] = 0

C13_Witness ==
    /\ PDReturned
    /\ Cardinality({j \in DOMAIN leaf_slopes :
                      leaf_xranges[j][2] = real_uniq_x[Len(real_uniq_x)]}) >= 2
    /\ slope_counts_at_x[Len(real_uniq_x)] = 0

\* a maximal run of NaN slopes starts at position a; p lies in the run from a
NanRunStart(a) == isnan(slope_at_x[a]) /\ (a = 1 \/ ~isnan(slope_at_x[a - 1]))
InNanRun(a, p) == a <= p /\ \A q \in a..p : isnan(slope_at_x[q])

\* C16 as stated: of every maximal run of NaN positions exactly the first is
\* retained, a run that begins at the smallest x included.
C16_AsStated ==
    PDReturned =>
        \A a \in DOMAIN real_uniq_x : NanRunStart(a) =>
            /\ Retained(a)
            /\ \A p \in (a + 1)..Len(real_uniq_x) : InNanRun(a, p) => ~Retained(p)

\* C16, amended: of every maximal run of NaN positions that begins after the
\* smallest x exactly the first is retained; of a run that begins at the
\* smallest x no position is retained.
C16_FirstOfInnerRunRetained ==
    PDReturned =>
        \A a \in DOMAIN real_uniq_x : NanRunStart(a) =>
            /\ Retained(a) <=> a > 1
            /\ \A p \in (a + 1)..Len(real_uniq_x) : InNanRun(a, p) => ~Retained(p)

C16_Witness ==
    /\ PDReturned
    /\ Len(real_uniq_x) = 4
    /\ isnan(slope_at_x[1]) /\ isnan(slope_at_x[2]) /\ ~isnan(slope_at_x[3])
    /\ pdpx = <<real_uniq_x[3], real_uniq_x[4]>>

\* C17 as stated: between two consecutive points of the curve, at some
\* position p with x_i <= x_p < x_j the slope is measured.
C17_AsStated ==
    PDReturned =>
        \A k \in 1..(Len(pdpx) - 1) :
            \E p \in DOMAIN real_uniq_x :
                /\ pdpx[k] <= real_uniq_x[p] /\ real_uniq_x[p] < pdpx[k + 1]
                /\ ~isnan(slope_at_x[p])

\* C17, amended: for two consecutive points of the curve, at some position p
\* with x_i <= x_p <= x_j the slope is measured.
C17_MeasuredSlopeAtOrBetween ==
    PDReturned =>
        \A k \in 1..(Len(pdpx) - 1) :
            \E p \in DOMAIN real_uniq_x :
                /\ pdpx[k] <= real_uniq_x[p] /\ real_uniq_x[p] <= pdpx[k + 1]
                /\ ~isnan(slope_at_x[p])

C17_Witness ==
    /\ PDReturned
    /\ Len(real_uniq_x) = 4
    /\ ~isnan(slope_at_x[1]) /\ isnan(slope_at_x[2]) /\ ~isnan(slope_at_x[3])
    /\ pdpx = real_uniq_x

\* the position in real_uniq_x of the k-th point of the curve
PosOf(k) == CHOOSE p \in DOMAIN real_uniq_x : real_uniq_x[p] = pdpx[k]

\* C18: for consecutive retained points, y_j - y_i is slope(x_i)*(x_j - x_i)
\* when the thresholded slope at x_i is measured and 0 when it is NaN; and
\* integrating over the retained x only gives the same y values.
C18_IntegrationCarriesForward ==
    PDReturned =>
        /\ \A k \in 1..(Len(pdpx) - 1) :
              RSub(pdpy[k + 1], pdpy[k]) =
                 IF isnan(slope_at_x[PosOf(k)]) THEN R(0)
                 ELSE RMul(slope_at_x[PosOf(k)], Norm(pdpx[k + 1] - pdpx[k], x_den))
        /\ Len(pdpx) > 0 =>
              pdpy = integrate(pdpx, [k \in DOMAIN pdpx |-> slope_at_x[PosOf(k)]], x_den)

C18_Witness ==
    /\ PDReturned
    /\ Len(real_uniq_x) = 4
    /\ ~isnan(slope_at_x[1]) /\ slope_at_x[1] /= R(0)
    /\ isnan(slope_at_x[2])
    /\ ~isnan(slope_at_x[3]) /\ slope_at_x[3] /= R(0)
    /\ pdpy[2] = pdpy[3] /\ pdpy[4] /= pdpy[3]

\* ------------------------------------- plot_stratpd on close target values
\* The target values are XVals in units of 8e-9: 8e-9, 1.6e-8, 2.4e-8, 3.2e-8.
\* They are multiples of 1e-10, so .round(decimals=10) (line 107) leaves them
\* where they are.
XDenClose == 125000000

PDInitClose == PDInitAt(XDenClose)

SpecPDClose == PDInitClose /\ [][PDNext]_vars

\* ---- claims about collect_discrete_slopes (checked under SpecPDClose)
\* the distinct target values of the k-th leaf
LeafDistinct(k) == {X_col[leaf_samples(leaf_ids)[k][i]] :
                        i \in DOMAIN leaf_samples(leaf_ids)[k]}

\* C19: a leaf is skipped (its size added to ignored, no segment from it)
\* exactly when it has fewer than 2 distinct target values; a leaf with
\* k >= 2 distinct values, however close, gives k-1 segments and adds nothing
\* to ignored.
C19_SkipsOnlyDegenerateLeaves ==
    PDReturned =>
        LET leaves == leaf_samples(leaf_ids)
        IN  /\ ignored = SumSeq([k \in DOMAIN leaves |->
                    IF Cardinality(LeafDistinct(k)) < 2 THEN Len(leaves[k]) ELSE 0])
            /\ Len(leaf_slopes) = SumSeq([k \in DOMAIN leaves |->
                    Cardinality(LeafDistinct(k)) - 1])
            /\ Len(leaf_xranges) = Len(leaf_slopes)

\* --------------------------------------------------- nanavg_vectors on its own
NAInit ==
    /\ pc = "na_call"
    /\ na_a \in [1..VecLen -> NAVals]
    /\ na_b \in [1..VecLen -> NAVals]
    /\ na_wa \in [1..VecLen -> 0..MaxWeight]
    /\ na_wb \in [1..VecLen -> 0..MaxWeight]
    /\ na_c = <<>>
    /\ FDIdle /\ PDIdle /\ CatIdle /\ CPDIdle /\ TrIdle /\ ParIdle

NACall ==
    /\ pc = "na_call"
    /\ na_c' = nanavg_vectors(na_a, na_b, na_wa, na_wb)
    /\ pc' = "na_done"
    /\ UNCHANGED <<na_a, na_b, na_wa, na_wb, fdVars, pdVars, catVars,
                   cpdVars, trVars,
                   parVars>>

NANext == NACall

SpecNA == NAInit /\ [][NANext]_vars

\* ---- claims about nanavg_vectors (checked under SpecNA)
\* c = (a*wa + b*wb)/(wa + wb), with the quotient of IEEE arithmetic
NAWeightedAverage(i) ==
    RDiv(RAdd(RMul(na_a[i], R(na_wa[i])), RMul(na_b[i], R(na_wb[i]))),
         R(na_wa[i] + na_wb[i]))

NAOnePresent(i) ==
    /\ isnan(na_a[i]) /\ ~isnan(na_b[i]) => na_c[i] = na_b[i]
    /\ ~isnan(na_a[i]) /\ isnan(na_b[i]) => na_c[i] = na_a[i]
    /\ isnan(na_a[i]) /\ isnan(na_b[i]) => isnan(na_c[i])

\* C10 as stated: where both are present the result is (a*wa + b*wb)/(wa+wb);
\* where one is present it is that value, whatever the weights; where neither
\* is, it is NaN; a=[NaN,2], b=[5,NaN], wa=wb=1 gives [5,2].
C10_AsStated ==
    pc = "na_done" =>
        /\ Len(na_c) = Len(na_a)
        /\ \A i \in DOMAIN na_a :
              /\ NAOnePresent(i)
              /\ (~isnan(na_a[i]) /\ ~isnan(na_b[i])) => na_c[i] = NAWeightedAverage(i)

\* C10, amended: as stated where wa + wb /= 0; where both are present and
\* wa + wb = 0 the result is the number 0.
C10_WeightedNanAverage ==
    pc = "na_done" =>
        /\ Len(na_c) = Len(na_a)
        /\ \A i \in DOMAIN na_a :
              /\ NAOnePresent(i)
              /\ (~isnan(na_a[i]) /\ ~isnan(na_b[i]) /\ na_wa[i] + na_wb[i] /= 0)
                    => /\ na_c[i] = NAWeightedAverage(i)
                       /\ na_c[i][1] * (na_wa[i] + na_wb[i]) * na_a[i][2] * na_b[i][2]
                            = na_c[i][2] * (na_a[i][1] * na_wa[i] * na_b[i][2]
                                            + na_b[i][1] * na_wb[i] * na_a[i][2])
              /\ (~isnan(na_a[i]) /\ ~isnan(na_b[i]) /\ na_wa[i] + na_wb[i] = 0)
                    => na_c[i] = R(0)
        /\ (na_a = <<NaN, R(2)>> /\ na_b = <<R(5), NaN>>
                /\ na_wa = <<1, 1>> /\ na_wb = <<1, 1>>) => na_c = <<R(5), R(2)>>

C10_Witness ==
    /\ pc = "na_done"
    /\ na_a = <<R(2), R(2)>> /\ na_b = <<R(5), R(5)>>
    /\ na_wa = <<1, 0>> /\ na_wb = <<2, 0>>
    /\ na_c = <<R(4), R(0)>>

\* ------------------------------------------------------------ avg_values_at_cat
\* A column as catwise_leaves builds it: at least two categories present, a
\* delta exactly where the count is positive, 0 at the smallest category
\* present.
CatColumnsOn(present) ==
    {[deltas |-> [c \in 1..NCats |->
                    IF c \notin present THEN NaN
                    ELSE IF c = SetMin(present) THEN R(0) ELSE d[c]],
      counts |-> [c \in 1..NCats |-> IF c \in present THEN k[c] ELSE 0]] :
        d \in [present -> CatDeltaVals], k \in [present -> 1..MaxCount]}

CatColumns ==
    UNION {CatColumnsOn(present) :
            present \in {P \in SUBSET (1..NCats) :
                            Cardinality(P) >= 2 /\ Cardinality(P) <= MaxCatsPerLeaf}}

\* a number that tells two columns apart, to list the leaves after the first
\* in one order only (the loop visits them in any order)
RECURSIVE ColKey(_, _)
ColKey(col, c) ==
    IF c = 0 THEN 0
    ELSE ColKey(col, c - 1) * (8 * (MaxCount + 1))
         + 8 * col.counts[c]
         + (IF isnan(col.deltas[c]) THEN 0 ELSE col.deltas[c][1] + 2)

\* lines 1045-1051
CatInit ==
    /\ pc = "cat_while"
    /\ \E n \in 1..MaxCatLeaves : \E cols \in [1..n -> CatColumns] :
          /\ \A j \in 2..(n - 1) : ColKey(cols[j], NCats) <= ColKey(cols[j + 1], NCats)
          /\ leaf_deltas = [j \in 1..n |-> cols[j].deltas]
          /\ leaf_counts = [j \in 1..n |-> cols[j].counts]
    /\ counts_in = leaf_counts
    /\ catavg = leaf_deltas[1]
    /\ merge_ignored = 0
    /\ work = 2..Len(leaf_deltas)
    /\ completed = {-1}
    /\ iteration = 1
    /\ todo = {}
    /\ FDIdle /\ PDIdle /\ NAIdle /\ CPDIdle /\ TrIdle /\ ParIdle

\* (a variant of CatPassBegin: a pass starts although the last merged nothing)
CatPassBegin_after_idle_pass ==
    /\ pc = "cat_while"
    /\ Cardinality(work) > 0 /\ iteration <= max_iter
    /\ completed' = {}
    /\ todo' = work
    /\ pc' = "cat_for"
    /\ UNCHANGED <<leaf_deltas, leaf_counts, counts_in, catavg, work, iteration,
                   merge_ignored, fdVars, pdVars, naVars,
                   cpdVars, trVars,
                   parVars>>

\* line 1054, the loop is entered: completed = set(), the for loop starts
CatPassBegin ==
    /\ pc = "cat_while"
    /\ Cardinality(work) > 0 /\ Cardinality(completed) > 0 /\ iteration <= max_iter
    /\ completed' = {}
    /\ todo' = work
    /\ pc' = "cat_for"
    /\ UNCHANGED <<leaf_deltas, leaf_counts, counts_in, catavg, work, iteration,
                   merge_ignored, fdVars, pdVars, naVars,
                   cpdVars, trVars,
                   parVars>>

\* lines 1057-1064: the for loop reaches leaf j (a set is iterated in no
\* promised order) and finds nothing to merge it on
CatSkip(j) ==
    /\ pc = "cat_for"
    /\ j \in todo
    /\ \A c \in DOMAIN catavg : ~are_intersecting(catavg, leaf_deltas[j])[c]
    /\ todo' = todo \ {j}
    /\ UNCHANGED <<pc, leaf_deltas, leaf_counts, counts_in, catavg, work, completed,
                   iteration, merge_ignored, fdVars, pdVars, naVars,
                   cpdVars, trVars,
                   parVars>>

\* lines 1057-1085: the for loop reaches leaf j and merges it
CatMerge(j) ==
    /\ pc = "cat_for"
    /\ j \in todo
    /\ \E c \in DOMAIN catavg : are_intersecting(catavg, leaf_deltas[j])[c]
    /\ \E ix \in {merge_refcat(catavg, leaf_deltas[j], leaf_counts[j])} :
          catavg' = merged_catavg(catavg, catavg_weight, leaf_deltas[j],
                                  leaf_counts[j], ix)
    /\ leaf_counts' = [leaf_counts EXCEPT ![1] = added_weight(@, leaf_counts[j])]
    /\ completed' = completed \cup {j}
    /\ todo' = todo \ {j}
    /\ UNCHANGED <<pc, leaf_deltas, counts_in, work, iteration, merge_ignored,
                   fdVars, pdVars, naVars,
                   cpdVars, trVars,
                   parVars>>

\* lines 1086-1087: the for loop is over
CatPassEnd ==
    /\ pc = "cat_for"
    /\ todo = {}
    /\ iteration' = iteration + 1
    /\ work' = work \ completed
    /\ pc' = "cat_while"
    /\ UNCHANGED <<leaf_deltas, leaf_counts, counts_in, catavg, completed, todo,
                   merge_ignored, fdVars, pdVars, naVars,
                   cpdVars, trVars,
                   parVars>>

\* (a variant of unmerged_samples: the work list not used as the index)
later_samples(counts, work_) ==
    SumSeq([j \in DOMAIN counts |-> IF j > 1 THEN SumSeq(counts[j]) ELSE 0])

\* lines 1092-1093: np.sum(num_obs_per_leaf[list(work)])
unmerged_samples(counts, work_) ==
    SumSeq([j \in DOMAIN counts |-> IF j \in work_ THEN SumSeq(counts[j]) ELSE 0])

\* lines 1054 and 1089-1097: the loop is left and the function returns
CatReturn ==
    /\ pc = "cat_while"
    /\ ~(Cardinality(work) > 0 /\ Cardinality(completed) > 0 /\ iteration <= max_iter)
    /\ merge_ignored' = IF Cardinality(work) > 0
                        THEN unmerged_samples(leaf_counts, work) ELSE 0
    /\ pc' = "cat_done"
    /\ UNCHANGED <<leaf_deltas, leaf_counts, counts_in, catavg, work, completed,
                   iteration, todo, fdVars, pdVars, naVars,
                   cpdVars, trVars,
                   parVars>>

CatNext == CatPassBegin \/ (\E j \in 2..MaxCatLeaves : CatSkip(j))
           \/ (\E j \in 2..MaxCatLeaves : CatMerge(j)) \/ CatPassEnd \/ CatReturn

SpecCat == CatInit /\ [][CatNext]_vars

\* ---- claims about avg_values_at_cat (checked under SpecCat)
CatPresent(j) == {c \in DOMAIN leaf_deltas[j] : ~isnan(leaf_deltas[j][c])}

\* every leaf holds the categories of the first
SameCategories == \A j \in DOMAIN leaf_deltas : CatPresent(j) = CatPresent(1)

\* the leaves after the first merged one by one in index order, from the
\* running vector cav with weights w
RECURSIVE MergedInIndexOrder(_, _, _)
MergedInIndexOrder(j, cav, w) ==
    IF j > Len(leaf_deltas) THEN cav
    ELSE MergedInIndexOrder(j + 1,
            merged_catavg(cav, w, leaf_deltas[j], counts_in[j],
                          merge_refcat(cav, leaf_deltas[j], counts_in[j])),
            added_weight(w, counts_in[j]))

\* C8: when all leaves hold the same categories, the final vector is the
\* same whatever the order in which the leaves after the first are merged
\* (here: the same as when they are merged in index order).
C8_AsStated ==
    (pc = "cat_done" /\ SameCategories) =>
        catavg = MergedInIndexOrder(2, leaf_deltas[1], counts_in[1])

\* the leaves after the first that have been merged into the running vector
MergedLeaves == (2..Len(leaf_deltas)) \ (work \ completed)

\* the running vector if lines 1058-1075 ran once more for leaf j
Remerged(j) ==
    merged_catavg(catavg, catavg_weight, leaf_deltas[j], leaf_counts[j],
                  merge_refcat(catavg, leaf_deltas[j], leaf_counts[j]))

\* C9 as stated: merging an already merged leaf a second time changes the
\* running vector at no category that is already resolved.
C9_AsStated ==
    \A j \in MergedLeaves : \A c \in 1..NCats :
        ~isnan(catavg[c]) => Remerged(j)[c] = catavg[c]

\* C9, amended: merging an already merged leaf a second time leaves the
\* running value unchanged at the category that merge is anchored on and at
\* every resolved category the leaf does not hold.
C9_RemergeKeepsAnchorAndAbsent ==
    \A j \in MergedLeaves : \A c \in 1..NCats :
        (~isnan(catavg[c])
            /\ (c = merge_refcat(catavg, leaf_deltas[j], leaf_counts[j])
                \/ isnan(leaf_deltas[j][c])))
        => Remerged(j)[c] = catavg[c]

C9_Witness ==
    /\ pc = "cat_for"
    /\ \E j \in MergedLeaves :
          /\ Remerged(j) /= catavg
          /\ catavg[merge_refcat(catavg, leaf_deltas[j], leaf_counts[j])] /= R(0)
          /\ \E c \in 1..NCats : ~isnan(catavg[c]) /\ isnan(leaf_deltas[j][c])

\* what one pass of the for loop can end in, from the running vector cav with
\* weights w, for the columns deltas, counts and the leaves todo_ still to visit
RECURSIVE PassOutcomes(_, _, _, _, _, _)
PassOutcomes(deltas, counts, cav, w, todo_, done) ==
    IF todo_ = {} THEN {[catavg |-> cav, weight |-> w, completed |-> done]}
    ELSE UNION {
            IF \E c \in DOMAIN cav : are_intersecting(cav, deltas[j])[c]
            THEN PassOutcomes(deltas, counts,
                    merged_catavg(cav, w, deltas[j], counts[j],
                                  merge_refcat(cav, deltas[j], counts[j])),
                    added_weight(w, counts[j]), todo_ \ {j}, done \cup {j})
            ELSE PassOutcomes(deltas, counts, cav, w, todo_ \ {j}, done)
            : j \in todo_}

\* what avg_values_at_cat can return for the columns deltas, counts
RECURSIVE RunOutcomes(_, _, _, _, _, _, _)
RunOutcomes(deltas, counts, cav, w, work_, completed_, iteration_) ==
    IF work_ /= {} /\ completed_ /= {} /\ iteration_ <= max_iter
    THEN UNION {RunOutcomes(deltas, counts, r.catavg, r.weight,
                            work_ \ r.completed, r.completed, iteration_ + 1)
                : r \in PassOutcomes(deltas, counts, cav, w, work_, {})}
    ELSE {[catavg |-> cav, weight |-> w, work |-> work_]}

\* the leaves that are not left in the work list, in index order
KeptLeaves == SortedSeq((1..Len(leaf_deltas)) \ work)

Intersecting(j) ==
    {c \in DOMAIN catavg : ~isnan(catavg[c]) /\ ~isnan(leaf_deltas[j][c])}

\* C21: the category a leaf is merged on is an intersecting category whose
\* sample count in the leaf is the largest among the intersecting ones, and
\* among several with the largest count it is the lowest category code.
C21_RefcatIsHeaviestIntersecting ==
    pc = "cat_for" =>
        \A j \in todo :
            Intersecting(j) /= {} =>
                LET ix == merge_refcat(catavg, leaf_deltas[j], leaf_counts[j])
                IN  /\ ix \in Intersecting(j)
                    /\ \A c \in Intersecting(j) :
                          /\ counts_in[j][c] <= counts_in[j][ix]
                          /\ counts_in[j][c] = counts_in[j][ix] => ix <= c

C21_Witness ==
    /\ pc = "cat_for"
    /\ \E j \in todo : \E c1, c2 \in Intersecting(j) :
          /\ c1 < c2
          /\ counts_in[j][c1] = counts_in[j][c2]
          /\ merge_refcat(catavg, leaf_deltas[j], leaf_counts[j]) = c1

\* the first leaf and the leaves merged into the running vector
FusedLeaves == (1..Len(leaf_deltas)) \ (work \ completed)

\* C26: in the result the weight of a category is the sum of its counts, as
\* passed in, over the first leaf and the merged leaves, and a category that
\* occurs in none of these has value NaN and weight 0.
C26_WeightIsSumOfMergedCounts ==
    pc = "cat_done" =>
        \A c \in DOMAIN catavg :
            /\ catavg_weight[c] =
                  SumSeq([j \in DOMAIN counts_in |->
                            IF j \in FusedLeaves THEN counts_in[j][c] ELSE 0])
            /\ (\A j \in FusedLeaves : counts_in[j][c] = 0)
                  => (isnan(catavg[c]) /\ catavg_weight[c] = 0)

C26_Witness ==
    /\ pc = "cat_done"
    /\ Cardinality(FusedLeaves) = 2 /\ Cardinality(work) = 1
    /\ \E c \in DOMAIN catavg :
          /\ isnan(catavg[c]) /\ catavg_weight[c] = 0
          /\ \E j \in work : counts_in[j][c] > 0
    /\ \E c \in DOMAIN catavg : catavg_weight[c] > counts_in[1][c] /\ counts_in[1][c] > 0

\* C28: after the call every entry of leaf_counts, column 0 included, has the
\* value it had before the call (no step assigns to leaf_deltas).
C28_InputsUnchanged ==
    pc = "cat_done" => leaf_counts = counts_in

\* the samples of all the leaves passed in
TotalSamples == SumSeq([j \in DOMAIN counts_in |-> SumSeq(counts_in[j])])

\* C29: the returned weights and merge_ignored add up to the number of
\* samples of all the leaves passed in; a step changes the running vector
\* or the weights only by merging one leaf that is in the work list and not
\* merged yet, and a leaf that has left the work list never returns to it.
C29_SamplesConserved ==
    /\ [](pc = "cat_done" => SumSeq(catavg_weight) + merge_ignored = TotalSamples)
    /\ [][/\ (catavg' /= catavg \/ leaf_counts' /= leaf_counts)
               => \E j \in work \ completed :
                     /\ completed' = completed \cup {j}
                     /\ leaf_counts'[1] = [c \in DOMAIN catavg |->
                                             leaf_counts[1][c] + counts_in[j][c]]
            /\ work' \subseteq work
            /\ (pc = "cat_for" /\ pc' = "cat_while") => work' = work \ completed]_vars

C29_Witness ==
    /\ pc = "cat_done"
    /\ Len(leaf_deltas) = 3
    /\ merge_ignored > 0
    /\ SumSeq(catavg_weight) > SumSeq(counts_in[1])
    /\ SumSeq(catavg_weight) + merge_ignored = TotalSamples

ChainColumn(a, b) ==
    [deltas |-> [c \in 1..NChainCats |->
                    IF c = a THEN R(0) ELSE IF c = b THEN R(1) ELSE NaN],
     counts |-> [c \in 1..NChainCats |-> IF c = a \/ c = b THEN 1 ELSE 0]]

ChainColumns ==
    {ChainColumn(p[1], p[2]) :
        p \in {q \in (1..NChainCats) \X (1..NChainCats) : q[1] < q[2]}}

\* lines 1045-1051, the first leaf on the two lowest category codes
CatChainInit ==
    /\ pc = "cat_while"
    /\ \E n \in 1..MaxChainLeaves : \E cols \in [1..n -> ChainColumns] :
          /\ cols[1] = ChainColumn(1, 2)
          /\ leaf_deltas = [j \in 1..n |-> cols[j].deltas]
          /\ leaf_counts = [j \in 1..n |-> cols[j].counts]
    /\ counts_in = leaf_counts
    /\ catavg = leaf_deltas[1]
    /\ merge_ignored = 0
    /\ work = 2..Len(leaf_deltas)
    /\ completed = {-1}
    /\ iteration = 1
    /\ todo = {}
    /\ FDIdle /\ PDIdle /\ NAIdle /\ CPDIdle /\ TrIdle /\ ParIdle

\* line 1057, `for j in work`: CPython iterates a set of small integers in
\* ascending order, so the loop reaches the lowest leaf index not visited yet
CatChainVisit ==
    \/ \E j \in 2..MaxChainLeaves : j = SetMin(todo \cup {j}) /\ CatSkip(j)
    \/ \E j \in 2..MaxChainLeaves : j = SetMin(todo \cup {j}) /\ CatMerge(j)

CatChainNext == CatPassBegin \/ CatChainVisit \/ CatPassEnd \/ CatReturn

SpecCatChain == CatChainInit /\ [][CatChainNext]_vars

\* ---- claims about the passes of avg_values_at_cat (checked under SpecCatChain)
\* the categories tied to those of S through leaves that share a category
RECURSIVE Connected(_)
Connected(S) ==
    LET grown == S \cup UNION {CatPresent(j) : j \in {k \in DOMAIN leaf_deltas :
                                                    CatPresent(k) \cap S /= {}}}
    IN  IF grown = S THEN S ELSE Connected(grown)

\* C22: with max_iter = 3 a leaf is left in the work list at the end only
\* when no chain of leaves that share categories ties its categories to
\* those of the first leaf.
C22_EveryConnectedLeafMerged ==
    pc = "cat_done" =>
        \A j \in work : CatPresent(j) \cap Connected(CatPresent(1)) = {}

\* the columns of the leaves on two neighbouring category codes
LinkColumns == {ChainColumn(a, a + 1) : a \in 1..(NChainCats - 1)}

\* lines 1045-1051, every leaf on two neighbouring category codes
CatLinkInit ==
    /\ pc = "cat_while"
    /\ \E n \in 1..MaxChainLeaves : \E cols \in [1..n -> LinkColumns] :
          /\ cols[1] = ChainColumn(1, 2)
          /\ leaf_deltas = [j \in 1..n |-> cols[j].deltas]
          /\ leaf_counts = [j \in 1..n |-> cols[j].counts]
    /\ counts_in = leaf_counts
    /\ catavg = leaf_deltas[1]
    /\ merge_ignored = 0
    /\ work = 2..Len(leaf_deltas)
    /\ completed = {-1}
    /\ iteration = 1
    /\ todo = {}
    /\ FDIdle /\ PDIdle /\ NAIdle /\ CPDIdle /\ TrIdle /\ ParIdle

\* the interpreter keeps running the call: a step that can be taken is taken
SpecCatLinks == CatLinkInit /\ [][CatChainNext]_vars /\ WF_vars(CatChainNext)

\* C23: the merge loop ends; it makes at most max_iter passes; a pass starts
\* only while the work list is not empty and the pass before it merged a
\* leaf; and when the loop ends after a pass that merged nothing, no leaf
\* left in the work list shares a measured category with the running vector.
C23_MergeLoopTerminates ==
    /\ <>(pc = "cat_done")
    /\ [](iteration <= max_iter + 1)
    /\ [][(pc = "cat_while" /\ pc' = "cat_for")
            => (work /= {} /\ completed /= {} /\ iteration <= max_iter)]_vars
    /\ []((pc = "cat_done" /\ work /= {} /\ completed = {})
            => \A j \in work : Intersecting(j) = {})

C23_Witness ==
    /\ pc = "cat_done"
    /\ work /= {} /\ completed = {}
    /\ iteration = max_iter
    /\ Len(leaf_deltas) - 1 - Cardinality(work) = 1

\* ---------------------------------------------------------------- catwise_leaves
\* Category code k is index k+1 of a column.

\* (a variant of catwise_column: the largest category code as the reference)
catwise_column_last_ref(sample, X_col_, y_, max_catcode) ==
    LET leaf_cats == Take(X_col_, sample)
        leaf_y == Take(y_, sample)
        uniq_leaf_cats == np_unique(leaf_cats)
        idx_of_ref_cat_in_leaf == Len(uniq_leaf_cats)
    IN  [kept |-> ~(Len(uniq_leaf_cats) < 2),
         size |-> Len(sample),
         deltas |-> [c \in 1..(max_catcode + 1) |->
                      IF \E k \in DOMAIN uniq_leaf_cats : uniq_leaf_cats[k] = c - 1
                      THEN RSub(MeanWhere(leaf_cats, leaf_y, c - 1),
                                MeanWhere(leaf_cats, leaf_y,
                                          uniq_leaf_cats[idx_of_ref_cat_in_leaf]))
                      ELSE NaN],
         counts |-> [c \in 1..(max_catcode + 1) |->
                      Cardinality({i \in DOMAIN leaf_cats : leaf_cats[i] = c - 1})]]

\* (a variant of catwise_column: a leaf with one category is kept)
catwise_column_keeps_single(sample, X_col_, y_, max_catcode) ==
    LET leaf_cats == Take(X_col_, sample)
        leaf_y == Take(y_, sample)
        uniq_leaf_cats == np_unique(leaf_cats)
        idx_of_ref_cat_in_leaf == 1
    IN  [kept |-> ~(Len(uniq_leaf_cats) < 1),
         size |-> Len(sample),
         deltas |-> [c \in 1..(max_catcode + 1) |->
                      IF \E k \in DOMAIN uniq_leaf_cats : uniq_leaf_cats[k] = c - 1
                      THEN RSub(MeanWhere(leaf_cats, leaf_y, c - 1),
                                MeanWhere(leaf_cats, leaf_y,
                                          uniq_leaf_cats[idx_of_ref_cat_in_leaf]))
                      ELSE NaN],
         counts |-> [c \in 1..(max_catcode + 1) |->
                      Cardinality({i \in DOMAIN leaf_cats : leaf_cats[i] = c - 1})]]

\* lines 895-921, one leaf: whether it is kept, its number of samples, and
\* its column of leaf_deltas and of leaf_counts
catwise_column(sample, X_col_, y_, max_catcode) ==
    LET leaf_cats == Take(X_col_, sample)
        leaf_y == Take(y_, sample)
        uniq_leaf_cats == np_unique(leaf_cats)
        idx_of_ref_cat_in_leaf == 1      \* index 0 of the code
    IN  [kept |-> ~(Len(uniq_leaf_cats) < 2),
         size |-> Len(sample),
         deltas |-> [c \in 1..(max_catcode + 1) |->
                      IF \E k \in DOMAIN uniq_leaf_cats : uniq_leaf_cats[k] = c - 1
                      THEN RSub(MeanWhere(leaf_cats, leaf_y, c - 1),
                                MeanWhere(leaf_cats, leaf_y,
                                          uniq_leaf_cats[idx_of_ref_cat_in_leaf]))
                      ELSE NaN],
         counts |-> [c \in 1..(max_catcode + 1) |->
                      Cardinality({i \in DOMAIN leaf_cats : leaf_cats[i] = c - 1})]]

\* the indexes k of cols with cols[k].kept, ascending
keep_leaf_idxs(cols) == SortedSeq({k \in DOMAIN cols : cols[k].kept})

\* lines 887-926
catwise_leaves(leaf_ids_, X_col_, y_, max_catcode) ==
    LET leaves == leaf_samples(leaf_ids_)
        cols == [k \in DOMAIN leaves |->
                    catwise_column(leaves[k], X_col_, y_, max_catcode)]
        keep == keep_leaf_idxs(cols)
    IN  [leaf_deltas |-> [k \in DOMAIN keep |-> cols[keep[k]].deltas],
         leaf_counts |-> [k \in DOMAIN keep |-> cols[keep[k]].counts],
         ignored |-> SumSeq([k \in DOMAIN cols |->
                               IF cols[k].kept THEN 0 ELSE cols[k].size])]

\* the dataset and the leaves of the fitted forest; X_col holds the category
\* codes of the samples
CWInit ==
    /\ pc = "cw_call"
    /\ \E n \in 1..MaxCatSamples :
          /\ X_col \in [1..n -> 0..MaxCatCode]
          /\ y \in [1..n -> YVals]
          /\ leaf_ids \in {h \in [1..n -> LeafIds] : FirstAppearance(h)}
    /\ x_den = 1
    /\ min_slopes_per_x = 0 /\ parallel_jit = TRUE
    /\ leaf_xranges = <<>> /\ leaf_slopes = <<>> /\ ignored = 0
    /\ real_uniq_x = <<>> /\ avg_slope_at_x = <<>> /\ slope_counts_at_x = <<>>
    /\ slope_at_x = <<>> /\ pdpx = <<>> /\ pdpy = <<>> /\ ret = NoCurve("none")
    /\ FDIdle /\ NAIdle /\ CatIdle /\ CPDIdle /\ TrIdle /\ ParIdle

\* lines 944-945 and 967-968: max_catcode = np.max(X_col), then the call
CWCall ==
    /\ pc = "cw_call"
    /\ \E r \in {catwise_leaves(leaf_ids, X_col, y, SeqMax(X_col))} :
          /\ leaf_deltas' = r.leaf_deltas
          /\ leaf_counts' = r.leaf_counts
          /\ ignored' = r.ignored
    /\ pc' = "cw_done"
    /\ UNCHANGED <<X_col, x_den, y, leaf_ids, min_slopes_per_x, parallel_jit,
                   leaf_xranges, leaf_slopes, real_uniq_x, avg_slope_at_x,
                   slope_counts_at_x, slope_at_x, pdpx, pdpy, ret,
                   counts_in, catavg, work, completed, iteration, todo,
                   merge_ignored, fdVars, naVars, cpdVars, trVars,
                   parVars>>

CWNext == CWCall

SpecCW == CWInit /\ [][CWNext]_vars

\* ---- claims about catwise_leaves (checked under SpecCW)
\* the samples of leaf id, those of them of category code k, and the codes
\* present in the leaf
CWLeaf(id) == {i \in DOMAIN leaf_ids : leaf_ids[i] = id}
CWLeafOf(id, k) == {i \in CWLeaf(id) : X_col[i] = k}
CWCats(id) == {X_col[i] : i \in CWLeaf(id)}

\* the ids of the leaves with at least two distinct categories, ascending
CWKeptIds ==
    SortedSeq({id \in {leaf_ids[i] : i \in DOMAIN leaf_ids} : Cardinality(CWCats(id)) >= 2})

RECURSIVE CWSumY(_)
CWSumY(S) == IF S = {} THEN 0
             ELSE LET i == CHOOSE k \in S : TRUE IN y[i] + CWSumY(S \ {i})

\* the mean response of the samples of category k in leaf id
CWMean(id, k) == Norm(CWSumY(CWLeafOf(id, k)), Cardinality(CWLeafOf(id, k)))

\* C24: in every returned column the smallest category code present in the
\* leaf has delta exactly 0, and every present category has as delta its
\* mean response in the leaf minus that of the smallest code present.
C24_DeltasRelativeToSmallestCode ==
    pc = "cw_done" =>
        /\ Len(leaf_deltas) = Len(CWKeptIds)
        /\ \A k \in DOMAIN leaf_deltas :
              LET id == CWKeptIds[k]
                  ref == SetMin(CWCats(id))
              IN  /\ leaf_deltas[k][ref + 1] = R(0)
                  /\ \A c \in CWCats(id) :
                        leaf_deltas[k][c + 1] = RSub(CWMean(id, c), CWMean(id, ref))

C24_Witness ==
    /\ pc = "cw_done"
    /\ Len(leaf_deltas) = 2
    /\ \E k \in DOMAIN leaf_deltas :
          /\ isnan(leaf_deltas[k][1])
          /\ leaf_deltas[k][2] = R(0)
          /\ RLess(leaf_deltas[k][3], R(0))

\* C25: there is one column for each leaf with at least 2 distinct
\* categories and none for the other leaves; ignored is the number of
\* samples of the other leaves; in every column a category has a delta
\* exactly when its count is > 0, its count being its number of samples in
\* the leaf.
C25_DegenerateLeavesIgnored ==
    pc = "cw_done" =>
        /\ Len(leaf_deltas) = Len(CWKeptIds)
        /\ Len(leaf_counts) = Len(CWKeptIds)
        /\ ignored = Cardinality({i \in DOMAIN leaf_ids :
                                    Cardinality(CWCats(leaf_ids[i])) < 2})
        /\ \A k \in DOMAIN leaf_deltas : \A c \in DOMAIN leaf_deltas[k] :
              /\ leaf_counts[k][c] = Cardinality(CWLeafOf(CWKeptIds[k], c - 1))
              /\ ~isnan(leaf_deltas[k][c]) <=> leaf_counts[k][c] > 0

C25_Witness ==
    /\ pc = "cw_done"
    /\ Len(leaf_deltas) = 1
    /\ ignored = 2
    /\ Cardinality({leaf_ids[i] : i \in DOMAIN leaf_ids}) = 2
    /\ \E c \in DOMAIN leaf_deltas[1] : isnan(leaf_deltas[1][c])

\* ------------------------------------------------------ cat_partial_dependence
\* (a variant of any_negative: .all() in place of .any())
all_negative(codes) == \A i \in DOMAIN codes : ~isnan(codes[i]) /\ codes[i][1] < 0

\* line 940: (X_col<0).any(); NaN < 0 is False
any_negative(codes) == \E i \in DOMAIN codes : ~isnan(codes[i]) /\ codes[i][1] < 0

\* line 942: np.issubdtype(X_col.dtype, np.integer)
is_integer_dtype(dtype) == dtype = "int64"

CPDInit ==
    /\ pc = "cpd_call"
    /\ \E n \in 1..MaxCodes :
          \/ cat_dtype = "int64" /\ cat_codes \in [1..n -> {R(k) : k \in IntCodeVals}]
          \/ cat_dtype = "float64" /\ cat_codes \in [1..n -> FloatCodeVals]
    /\ supervised \in BOOLEAN
    /\ rf_fits = 0 /\ catwise_calls = 0 /\ cpd_ret = "none"
    /\ FDIdle /\ PDIdle /\ NAIdle /\ CatIdle /\ TrIdle /\ ParIdle

\* lines 938-943: the two checks of the codes
CPDValidate ==
    /\ pc = "cpd_call"
    /\ IF any_negative(cat_codes)
       THEN cpd_ret' = "ValueError: codes must be > 0" /\ pc' = "cpd_raised"
       ELSE IF ~is_integer_dtype(cat_dtype)
            THEN cpd_ret' = "ValueError: codes must be integers" /\ pc' = "cpd_raised"
            ELSE cpd_ret' = cpd_ret /\ pc' = "cpd_fit"
    /\ UNCHANGED <<cat_codes, cat_dtype, supervised, rf_fits, catwise_calls,
                   fdVars, pdVars, naVars, catVars, trVars,
                   parVars>>

\* lines 944-963: the forest is built and fit (line 952, or line 963 when
\* not supervised)
CPDFit ==
    /\ pc = "cpd_fit"
    /\ rf_fits' = rf_fits + 1
    /\ pc' = "cpd_refit"
    /\ UNCHANGED <<cat_codes, cat_dtype, supervised, catwise_calls, cpd_ret,
                   fdVars, pdVars, naVars, catVars, trVars,
                   parVars>>

\* line 965: rf.fit(X_not_col, y), once more
CPDRefit ==
    /\ pc = "cpd_refit"
    /\ rf_fits' = rf_fits + 1
    /\ pc' = "cpd_leaves"
    /\ UNCHANGED <<cat_codes, cat_dtype, supervised, catwise_calls, cpd_ret,
                   fdVars, pdVars, naVars, catVars, trVars,
                   parVars>>

\* lines 967-968: catwise_leaves goes through the leaves
CPDLeaves ==
    /\ pc = "cpd_leaves"
    /\ catwise_calls' = catwise_calls + 1
    /\ pc' = "cpd_merge"
    /\ UNCHANGED <<cat_codes, cat_dtype, supervised, rf_fits, cpd_ret,
                   fdVars, pdVars, naVars, catVars, trVars,
                   parVars>>

\* lines 970-985: avg_values_at_cat and the return
CPDReturn ==
    /\ pc = "cpd_merge"
    /\ cpd_ret' = "returned"
    /\ pc' = "cpd_done"
    /\ UNCHANGED <<cat_codes, cat_dtype, supervised, rf_fits, catwise_calls,
                   fdVars, pdVars, naVars, catVars, trVars,
                   parVars>>

CPDNext == CPDValidate \/ CPDFit \/ CPDRefit \/ CPDLeaves \/ CPDReturn

SpecCPD == CPDInit /\ [][CPDNext]_vars

\* ---- claims about cat_partial_dependence (checked under SpecCPD)
\* C11: with a negative code or a column that is not of integer type, the
\* call ends in a ValueError, and it does so before the forest is fit and
\* before any leaf is processed.
C11_InvalidCodesRaiseBeforeFit ==
    /\ (pc /= "cpd_call"
          /\ ((\E i \in DOMAIN cat_codes : cat_codes[i][1] < 0) \/ cat_dtype /= "int64"))
          => /\ pc = "cpd_raised"
             /\ cpd_ret \in {"ValueError: codes must be > 0",
                              "ValueError: codes must be integers"}
    /\ pc = "cpd_raised" => rf_fits = 0 /\ catwise_calls = 0

C11_Witness ==
    /\ pc = "cpd_raised"
    /\ cat_dtype = "int64"
    /\ \E i, j \in DOMAIN cat_codes : cat_codes[i][1] < 0 /\ cat_codes[j][1] > 0
    /\ rf_fits = 0

\* ------------------------------------------- plot_stratpd, n_trials trials
\* subsample_size=.75 (line 202) as SubsampleNum/SubsampleDen
SubsampleNum == 3
SubsampleDen == 4

\* lines 327-334, the sample indexes of one trial, listed in ascending order
\* (the forest is fit anew on them, and leaves and unique values do not
\* depend on the order of the samples): all of them when n_trials is 1,
\* else n drawn with replacement, or int(n*subsample_size) drawn without
resample(n, n_trials_, bootstrap_) ==
    IF n_trials_ = 1 THEN {[i \in 1..n |-> i]}
    ELSE IF bootstrap_
         THEN {f \in [1..n -> 1..n] : \A i \in 1..(n - 1) : f[i] <= f[i + 1]}
         ELSE {f \in [1..((n * SubsampleNum) \div SubsampleDen) -> 1..n] :
                  \A i \in 1..(Len(f) - 1) : f[i] < f[i + 1]}

\* the sum and the number of the y values the curves px, py hold at x
CurveSum(px, py, x) ==
    RSumSeq([t \in DOMAIN px |->
        RSumSeq([k \in DOMAIN px[t] |-> IF px[t][k] = x THEN py[t][k] ELSE R(0)])])
CurveCount(px, py, x) ==
    SumSeq([t \in DOMAIN px |->
        SumSeq([k \in DOMAIN px[t] |-> IF px[t][k] = x THEN 1 ELSE 0])])

\* the keys of the dict m in the order they were inserted
RECURSIVE InsertionOrder(_, _)
InsertionOrder(px, t) ==
    IF t = 0 THEN <<>>
    ELSE LET before == InsertionOrder(px, t - 1)
             IsNew(x) == \A k \in DOMAIN before : before[k] /= x
         IN  before \o SelectSeq(px[t], IsNew)

\* (a variant of avg_pd_curve: the keys not sorted)
avg_pd_curve_unsorted(px, py, n_trials_) ==
    LET keys == InsertionOrder(px, Len(px))
    IN  [pdpx |-> keys,
         pdpy |-> [i \in DOMAIN keys |->
                    RDiv(RMul(R(n_trials_), CurveSum(px, py, keys[i])),
                         R(n_trials_ * CurveCount(px, py, keys[i])))]]

\* lines 299-316: every point of every curve is added n_trials times to the
\* sum m[x] and to the count c[x]
avg_pd_curve(px, py, n_trials_) ==
    LET keys == SortedSeq(UNION {{px[t][k] : k \in DOMAIN px[t]} : t \in DOMAIN px})
    IN  [pdpx |-> keys,
         pdpy |-> [i \in DOMAIN keys |->
                    RDiv(RMul(R(n_trials_), CurveSum(px, py, keys[i])),
                         R(n_trials_ * CurveCount(px, py, keys[i])))]]

TrInit ==
    /\ pc = "tr_loop"
    /\ \E n \in 1..MaxTrialSamples :
          /\ X_col \in {f \in [1..n -> XVals] : NonDecreasing(f)}
          /\ y \in {g \in [1..n -> YVals] :
                      \A i \in 1..(n - 1) : X_col[i] = X_col[i + 1] => g[i] <= g[i + 1]}
    /\ n_trials \in 1..MaxTrials
    /\ bootstrap \in BOOLEAN
    \* a trial on no sample at all ends in the forest's fit
    /\ resample(Len(X_col), n_trials, bootstrap) /= {<<>>}
    /\ min_slopes_per_x \in MinSlopesVals
    /\ x_den = 1 /\ parallel_jit = TRUE /\ leaf_ids = <<>>
    /\ leaf_xranges = <<>> /\ leaf_slopes = <<>> /\ ignored = 0
    /\ real_uniq_x = <<>> /\ avg_slope_at_x = <<>> /\ slope_counts_at_x = <<>>
    /\ slope_at_x = <<>> /\ pdpx = <<>> /\ pdpy = <<>> /\ ret = NoCurve("none")
    /\ all_pdpx = <<>> /\ all_pdpy = <<>>
    /\ FDIdle /\ NAIdle /\ CatIdle /\ CPDIdle /\ ParIdle

\* lines 326-350, one trial: the samples are drawn, the forest is fit on them
\* (any leaf ids) and partial_dependence gives the trial's curve
\* (featimp.compute_importance, line 347, reads the curve and is not modelled)
TrTrial ==
    /\ pc = "tr_loop"
    /\ Len(all_pdpx) < n_trials
    /\ \E idxs \in resample(Len(X_col), n_trials, bootstrap) :
       \E ids \in {h \in [1..Len(idxs) -> LeafIds] : FirstAppearance(h)} :
       \E X_ \in {Take(X_col, idxs)} :
       \E c \in {collect_discrete_slopes(ids, X_, Take(y, idxs), x_den)} :
       \E uniq \in {np_unique(X_)} :
       \E a \in {avg_slopes_at_x_jit(uniq, c.leaf_xranges, c.leaf_slopes)} :
       \E thresholded \in {weak_evidence_to_nan(a.avg_value_at_x,
                                                  a.slope_counts_at_x,
                                                  min_slopes_per_x)} :
       \E all_y \in {integrate(uniq, thresholded, x_den)} :
       \E keep \in {idx_not_adjacent_nans(thresholded)} :
           /\ pdpx' = Take(uniq, keep)
           /\ pdpy' = Take(all_y, keep)
           /\ all_pdpx' = Append(all_pdpx, Take(uniq, keep))
           /\ all_pdpy' = Append(all_pdpy, Take(all_y, keep))
    /\ UNCHANGED <<pc, X_col, x_den, y, leaf_ids, min_slopes_per_x, parallel_jit,
                   leaf_xranges, leaf_slopes, ignored, real_uniq_x, avg_slope_at_x,
                   slope_counts_at_x, slope_at_x, ret, n_trials, bootstrap,
                   fdVars, naVars, catVars, cpdVars,
                   parVars>>

\* lines 370-377: the average curve has no point, ValueError
TrRaise ==
    /\ pc = "tr_loop"
    /\ Len(all_pdpx) = n_trials
    /\ \E avg \in {avg_pd_curve(all_pdpx, all_pdpy, n_trials)} :
          /\ Len(avg.pdpy) = 0
          /\ pdpx' = avg.pdpx /\ pdpy' = avg.pdpy
    /\ ret' = NoCurve("ValueError")
    /\ pc' = "tr_done"
    /\ UNCHANGED <<X_col, x_den, y, leaf_ids, min_slopes_per_x, parallel_jit,
                   leaf_xranges, leaf_slopes, ignored, real_uniq_x, avg_slope_at_x,
                   slope_counts_at_x, slope_at_x, trVars,
                   fdVars, naVars, catVars, cpdVars,
                   parVars>>

\* lines 370-500: the average curve is returned
TrReturn ==
    /\ pc = "tr_loop"
    /\ Len(all_pdpx) = n_trials
    /\ \E avg \in {avg_pd_curve(all_pdpx, all_pdpy, n_trials)} :
          /\ Len(avg.pdpy) /= 0
          /\ pdpx' = avg.pdpx /\ pdpy' = avg.pdpy
          /\ ret' = [outcome |-> "returned", pdpx |-> avg.pdpx, pdpy |-> avg.pdpy]
    /\ pc' = "tr_done"
    /\ UNCHANGED <<X_col, x_den, y, leaf_ids, min_slopes_per_x, parallel_jit,
                   leaf_xranges, leaf_slopes, ignored, real_uniq_x, avg_slope_at_x,
                   slope_counts_at_x, slope_at_x, trVars,
                   fdVars, naVars, catVars, cpdVars,
                   parVars>>

TrNext == TrTrial \/ TrRaise \/ TrReturn

SpecTrials == TrInit /\ [][TrNext]_vars

\* ---- claims about plot_stratpd's average curve (checked under SpecTrials)
\* C15: the curve plot_stratpd returns, the per-x average of the trial
\* curves over the trials whose curve holds that x, has first y value 0,
\* whatever the number of trials.
C15_AverageCurveStartsAtZero ==
    (pc = "tr_done" /\ ret.outcome = "returned") =>
        /\ ret.pdpy[1] = R(0)
        /\ \A i \in DOMAIN ret.pdpx :
              RMul(ret.pdpy[i], R(CurveCount(all_pdpx, all_pdpy, ret.pdpx[i])))
                 = CurveSum(all_pdpx, all_pdpy, ret.pdpx[i])

C15_Witness ==
    /\ pc = "tr_done" /\ ret.outcome = "returned"
    /\ n_trials = 2
    /\ Len(all_pdpx[1]) > 0 /\ Len(all_pdpx[2]) > 1
    /\ all_pdpx[2][1] < all_pdpx[1][1]
    /\ all_pdpx[2][2] = all_pdpx[1][1]
    /\ all_pdpy[2][2] /= R(0)
    /\ ret.pdpy[1] = R(0)

\* ----------------------------- avg_slopes_at_x_jit, prange iterations interleaved
\* lines 649-651: the arguments, and slopes = np.empty(...)
ParInit ==
    /\ pc = "par_cols"
    /\ real_uniq_x \in {SortedSeq(S) : S \in (SUBSET (1..MaxParX)) \ {{}}}
    /\ \E nslopes \in 0..MaxParSlopes :
          /\ leaf_xranges \in [1..nslopes -> {<<a, b>> \in XVals \X XVals : a < b}]
          /\ leaf_slopes \in [1..nslopes -> ParSlopeVals]
    /\ par_slopes = [r \in DOMAIN real_uniq_x |-> [j \in DOMAIN leaf_slopes |-> Unwritten]]
    /\ par_written = [j \in DOMAIN leaf_slopes |-> 0]
    /\ par_rows = {}
    /\ avg_slope_at_x = <<>> /\ slope_counts_at_x = <<>>
    /\ X_col = <<>> /\ x_den = 1 /\ y = <<>> /\ leaf_ids = <<>>
    /\ min_slopes_per_x = 0 /\ parallel_jit = TRUE /\ ignored = 0
    /\ slope_at_x = <<>> /\ pdpx = <<>> /\ pdpy = <<>> /\ ret = NoCurve("none")
    /\ FDIdle /\ NAIdle /\ CatIdle /\ CPDIdle /\ TrIdle

\* lines 652-656: iteration j of the first prange loop stores the next
\* element of its column; the iterations run in any order and interleaved
ParWrite(j) ==
    /\ pc = "par_cols"
    /\ j \in DOMAIN par_written
    /\ par_written[j] < Len(real_uniq_x)
    /\ LET r == par_written[j] + 1
       IN  par_slopes' = [par_slopes EXCEPT ![r][j] =
                              trim(real_uniq_x[r], leaf_xranges[j], leaf_slopes[j])]
    /\ par_written' = [par_written EXCEPT ![j] = @ + 1]
    /\ UNCHANGED <<pc, par_rows, fdVars, pdVars, naVars, catVars, cpdVars, trVars>>

\* (a variant of ParLoopEnd: the second loop starts while the first runs)
ParLoopEnd_no_wait ==
    /\ pc = "par_cols"
    /\ avg_slope_at_x' = [i \in DOMAIN real_uniq_x |-> R(0)]
    /\ slope_counts_at_x' = [i \in DOMAIN real_uniq_x |-> 0]
    /\ pc' = "par_rows"
    /\ UNCHANGED <<X_col, x_den, y, leaf_ids, min_slopes_per_x, parallel_jit,
                   leaf_xranges, leaf_slopes, ignored, real_uniq_x, slope_at_x,
                   pdpx, pdpy, ret, parVars, fdVars, naVars, catVars, cpdVars,
                   trVars>>

\* lines 656-668: the first prange loop is over once all its iterations are;
\* the two result vectors are allocated with np.zeros
ParLoopEnd ==
    /\ pc = "par_cols"
    /\ \A j \in DOMAIN par_written : par_written[j] = Len(real_uniq_x)
    /\ avg_slope_at_x' = [i \in DOMAIN real_uniq_x |-> R(0)]
    /\ slope_counts_at_x' = [i \in DOMAIN real_uniq_x |-> 0]
    /\ pc' = "par_rows"
    /\ UNCHANGED <<X_col, x_den, y, leaf_ids, min_slopes_per_x, parallel_jit,
                   leaf_xranges, leaf_slopes, ignored, real_uniq_x, slope_at_x,
                   pdpx, pdpy, ret, parVars, fdVars, naVars, catVars, cpdVars,
                   trVars>>

\* line 670, row = slopes[i, :]: what the read can give; an element that
\* was not written yet reads as any double
ReadRow(i) ==
    {row \in [DOMAIN par_written ->
                GarbageVals \cup {par_slopes[i][j] : j \in {k \in DOMAIN par_written :
                                                             par_written[k] >= i}}] :
        \A j \in DOMAIN par_written : par_written[j] >= i => row[j] = par_slopes[i][j]}

\* lines 669-674: iteration i of the second prange loop, in any order
ParRow(i) ==
    /\ pc = "par_rows"
    /\ i \in DOMAIN real_uniq_x
    /\ i \notin par_rows
    /\ \E row \in ReadRow(i) :
          /\ avg_slope_at_x' = [avg_slope_at_x EXCEPT
                                    ![i] = row_average(row, Len(leaf_slopes))]
          /\ slope_counts_at_x' = [slope_counts_at_x EXCEPT
                                       ![i] = row_count(row, Len(leaf_slopes))]
    /\ par_rows' = par_rows \cup {i}
    /\ UNCHANGED <<pc, X_col, x_den, y, leaf_ids, min_slopes_per_x, parallel_jit,
                   leaf_xranges, leaf_slopes, ignored, real_uniq_x, slope_at_x,
                   pdpx, pdpy, ret, par_slopes, par_written, fdVars, naVars,
                   catVars, cpdVars, trVars>>

\* line 677: the second prange loop is over, the function returns
ParReturn ==
    /\ pc = "par_rows"
    /\ par_rows = DOMAIN real_uniq_x
    /\ pc' = "par_done"
    /\ UNCHANGED <<fdVars, pdVars, naVars, catVars, cpdVars, trVars, parVars>>

ParNext ==
    \/ \E j \in 1..MaxParSlopes : ParWrite(j)
    \/ ParLoopEnd
    \/ \E i \in 1..MaxParX : ParRow(i)
    \/ ParReturn

SpecPar == ParInit /\ [][ParNext]_vars

\* ---- claims about avg_slopes_at_x_jit (checked under SpecPar)
\* what the sequential avg_slopes_at_x_nonparallel_jit returns for the inputs
Sequential == avg_slopes_at_x_nonparallel_jit(real_uniq_x, leaf_xranges, leaf_slopes)

\* C27: whatever the order and interleaving of the prange iterations, the
\* second loop starts with every element of the matrix written, every entry
\* it has written is the one the sequential function computes, and so is
\* the returned pair.
C27_ParallelEqualsSequential ==
    /\ pc \in {"par_rows", "par_done"} =>
          /\ \A j \in DOMAIN par_written : par_written[j] = Len(real_uniq_x)
          /\ \A i \in par_rows :
                /\ avg_slope_at_x[i] = Sequential.avg_value_at_x[i]
                /\ slope_counts_at_x[i] = Sequential.slope_counts_at_x[i]
    /\ pc = "par_done" =>
          /\ avg_slope_at_x = Sequential.avg_value_at_x
          /\ slope_counts_at_x = Sequential.slope_counts_at_x

C27_Witness ==
    /\ pc = "par_rows"
    /\ Len(real_uniq_x) = 3 /\ Len(leaf_slopes) = 2
    /\ par_rows = {2}
    /\ slope_counts_at_x[2] = 2
    /\ ~isnan(avg_slope_at_x[2]) /\ avg_slope_at_x[2] /= R(0)
    /\ leaf_slopes[1] /= leaf_slopes[2]

====
